---- MODULE Spec2Model ----
(***************************************************************************)
(* NutriChef Box (src/nutrichef-box/app.js): the shopping-list derivation  *)
(* of displayShoppingList and the nutrition aggregation of                 *)
(* updateNutritionGraph, as a state machine over the two IndexedDB object  *)
(* stores, the recipe and inventory forms that write them, the             *)
(* asynchronous reads of the display operations and what they put on the   *)
(* page.                                                                   *)
(*                                                                         *)
(* Strings are sequences of one-character strings, so that toLowerCase     *)
(* and the key order of an object store are computed character by          *)
(* character. JavaScript numbers are IEEE-754 doubles: the nutrient sums   *)
(* are computed with round-to-nearest-even additions (see DblAdd).         *)
(***************************************************************************)
EXTENDS Integers, Sequences, FiniteSets

\* ------------------------------------------------------------------ bounds

\* At most this many recipes in the recipes store.
MaxRecipes == 2
\* At most this many ingredient names in the recipes store altogether, each
\* occurrence counted.
MaxIngredients == 3
\* Inventory quantities range over 0..MaxQuantity.
MaxQuantity == 1
\* The most invocations of one display operation that overlap an invocation
\* in flight.
MaxOverlap == 1
\* The most Chart instances constructed on the canvas in one run.
MaxCharts == 2

\* ----------------------------------------------------------------- strings

UpperChars == <<"A","B","C","D","E","F","G","H","I","J","K","L","M",
                "N","O","P","Q","R","S","T","U","V","W","X","Y","Z">>
LowerChars == <<"a","b","c","d","e","f","g","h","i","j","k","l","m",
                "n","o","p","q","r","s","t","u","v","w","x","y","z">>

IsUpper(c) == \E i \in DOMAIN UpperChars : UpperChars[i] = c
IsLower(c) == \E i \in DOMAIN LowerChars : LowerChars[i] = c

\* String.prototype.toLowerCase on one character.
LowerChar(c) ==
  IF IsUpper(c)
    THEN LowerChars[CHOOSE i \in DOMAIN UpperChars : UpperChars[i] = c]
    ELSE c

\* String.prototype.toLowerCase.
toLowerCase(s) == [i \in DOMAIN s |-> LowerChar(s[i])]

\* The UTF-16 code unit of a character ('A' is 65, 'a' is 97).
CharCode(c) ==
  IF IsUpper(c)
    THEN 64 + (CHOOSE i \in DOMAIN UpperChars : UpperChars[i] = c)
    ELSE 96 + (CHOOSE i \in DOMAIN LowerChars : LowerChars[i] = c)

\* The order of string keys in an object store: by code units, a proper
\* prefix first.
RECURSIVE KeyLess(_, _)
KeyLess(a, b) ==
  IF b = <<>> THEN FALSE
  ELSE IF a = <<>> THEN TRUE
  ELSE IF CharCode(Head(a)) # CharCode(Head(b))
    THEN CharCode(Head(a)) < CharCode(Head(b))
  ELSE KeyLess(Tail(a), Tail(b))

\* The ingredient spellings recipes are written with: two spellings of one
\* ingredient and a second ingredient, all three with a nutrient fact, and
\* one ingredient with none.
IngredientNames ==
  { <<"E","g","g">>, <<"e","g","g">>, <<"M","i","l","k">>, <<"t","o","f","u">> }

\* The names inventory items are stored under.
InventoryNames == { <<"E","G","G">>, <<"e","g","g">> }

\* ------------------------------------------------------------------ stores

\* Sequences over S of length at most n.
SeqsUpTo(S, n) == UNION { [1..k -> S] : k \in 0..n }

\* What a stored recipe can be: a list of at most n ingredient names
\* (possibly empty, possibly with repeats), or a record with no ingredients
\* field at all.
RecipeBodies(names, n) ==
  { [ingredients |-> l] : l \in SeqsUpTo(names, n) } \cup { [title |-> "untitled"] }

\* The number of ingredient names a stored recipe lists.
ListLength(recipe) ==
  IF "ingredients" \in DOMAIN recipe THEN Len(recipe.ingredients) ELSE 0

\* The contents the recipes store can have, in key (id) order: at most r
\* recipes over `names`, listing at most n names altogether.
RECURSIVE RecipeStores(_, _, _)
RecipeStores(names, r, n) ==
  IF r = 0 THEN { <<>> }
  ELSE { <<>> } \cup
       UNION { { <<b>> \o rest : rest \in RecipeStores(names, r - 1, n - ListLength(b)) }
               : b \in RecipeBodies(names, n) }

\* The contents the inventory store can have: keyPath 'name', so one record
\* per exact name.
InventoryStores ==
  UNION { [N -> 0..MaxQuantity] : N \in SUBSET InventoryNames }

\* IDBObjectStore.getAll() on the recipes store: the records in key order.
GetAllRecipes(store) == store

\* IDBObjectStore.getAll() on the inventory store: the records in key order.
RECURSIVE GetAllInventory(_)
GetAllInventory(store) ==
  IF DOMAIN store = {} THEN <<>>
  ELSE LET first == CHOOSE n \in DOMAIN store :
                      \A m \in DOMAIN store \ {n} : KeyLess(n, m)
       IN <<[name |-> first, quantity |-> store[first]]>>
            \o GetAllInventory([n \in DOMAIN store \ {first} |-> store[n]])

\* ------------------------------------------- shopping needs (lines 454-464)

\* A Map or plain object with no entries.
EmptyMap == [k \in {} |-> 0]

\* Map.prototype.set, and assignment to a property of a plain object.
MapSet(m, k, v) == [x \in DOMAIN m \cup {k} |-> IF x = k THEN v ELSE m[x]]

\* A mutant of the Map construction: a key once set is kept.
RECURSIVE MapFromPairs_firstWins(_, _, _)
MapFromPairs_firstWins(m, inventory, from) ==
  IF from > Len(inventory) THEN m
  ELSE LET key == toLowerCase(inventory[from].name)
       IN MapFromPairs_firstWins(
            IF key \in DOMAIN m THEN m ELSE MapSet(m, key, inventory[from].quantity),
            inventory, from + 1)

\* new Map(pairs): the pairs are set one after the other from entry `from`
\* on, so a later pair replaces an earlier one with the same key.
RECURSIVE MapFromPairs(_, _, _)
MapFromPairs(m, inventory, from) ==
  IF from > Len(inventory) THEN m
  ELSE MapFromPairs(
         MapSet(m, toLowerCase(inventory[from].name), inventory[from].quantity),
         inventory, from + 1)

\* inventoryMap: inventory quantities under lower-cased names (line 454).
InventoryMap(inventory) == MapFromPairs(EmptyMap, inventory, 1)

\* A mutant of the lookup: the ingredient is looked up as spelled.
StockOf_exactName(inventoryMap, ingredient) ==
  IF ingredient \in DOMAIN inventoryMap THEN inventoryMap[ingredient] ELSE 0

\* stock: inventoryMap.get(ingredient.toLowerCase()) || 0 (line 459). A name
\* with no entry gives undefined, which || turns into 0.
StockOf(inventoryMap, ingredient) ==
  IF toLowerCase(ingredient) \in DOMAIN inventoryMap
    THEN inventoryMap[toLowerCase(ingredient)]
    ELSE 0

\* Mutants of the counting step: the key case-folded; a stock of 1 taken
\* for none; the count set to 1 instead of incremented.
CountIngredient_foldedKey(needed, inventoryMap, ingredient) ==
  IF StockOf(inventoryMap, ingredient) = 0
    THEN MapSet(needed, toLowerCase(ingredient),
                (IF toLowerCase(ingredient) \in DOMAIN needed
                   THEN needed[toLowerCase(ingredient)] ELSE 0) + 1)
    ELSE needed

CountIngredient_lowStock(needed, inventoryMap, ingredient) ==
  IF StockOf(inventoryMap, ingredient) <= 1
    THEN MapSet(needed, ingredient,
                (IF ingredient \in DOMAIN needed THEN needed[ingredient] ELSE 0) + 1)
    ELSE needed

CountIngredient_oncePerKey(needed, inventoryMap, ingredient) ==
  IF StockOf(inventoryMap, ingredient) = 0
    THEN MapSet(needed, ingredient, 1)
    ELSE needed

\* The body of the inner forEach (lines 459-462): one occurrence of one
\* ingredient.
CountIngredient(needed, inventoryMap, ingredient) ==
  IF StockOf(inventoryMap, ingredient) = 0
    THEN MapSet(needed, ingredient,
                (IF ingredient \in DOMAIN needed THEN needed[ingredient] ELSE 0) + 1)
    ELSE needed

\* recipe.ingredients.forEach(...) (lines 458-463) from position `from` on.
RECURSIVE CountIngredients(_, _, _, _)
CountIngredients(needed, inventoryMap, ingredients, from) ==
  IF from > Len(ingredients) THEN needed
  ELSE CountIngredients(CountIngredient(needed, inventoryMap, ingredients[from]),
                        inventoryMap, ingredients, from + 1)

\* recipes.forEach(...) (lines 457-464) from recipe `from` on. A recipe with
\* no ingredients field makes recipe.ingredients.forEach throw a TypeError,
\* which ends the loop.
RECURSIVE CountRecipes(_, _, _, _)
CountRecipes(needed, inventoryMap, recipes, from) ==
  IF from > Len(recipes) THEN [threw |-> FALSE, neededItems |-> needed]
  ELSE IF "ingredients" \notin DOMAIN recipes[from]
    THEN [threw |-> TRUE, neededItems |-> needed]
  ELSE CountRecipes(
         CountIngredients(needed, inventoryMap, recipes[from].ingredients, 1),
         inventoryMap, recipes, from + 1)

\* Lines 454-464 of displayShoppingList: neededItems from the two snapshots.
ShoppingNeeds(recipes, inventory) ==
  CountRecipes(EmptyMap, InventoryMap(inventory), recipes, 1)

\* ------------------------------------------------- doubles (JavaScript +)

\* A non-negative double v below 2^20 whose unit in the last place is at
\* least 2^-56 is held as the natural number v * 2^56, written with three
\* digits in base 2^24: v * 2^56 = hi * 2^48 + mid * 2^24 + lo. Every
\* nutrient fact and every sum of a few of them is such a number.
Limb == 2^24

Dbl(h, m, l) == [hi |-> h, mid |-> m, lo |-> l]

DblZero == Dbl(0, 0, 0)

\* The number of binary digits of n.
RECURSIVE BitLength(_)
BitLength(n) == IF n = 0 THEN 0 ELSE 1 + BitLength(n \div 2)

\* Carries moved up, so that mid and lo are digits again.
Carry(h, m, l) ==
  Dbl(h + ((m + (l \div Limb)) \div Limb), (m + (l \div Limb)) % Limb, l % Limb)

\* The significand of a double has 53 binary digits: an exact sum with more
\* is rounded to the nearest double, a tie to the one with an even
\* significand. drop is the number of low digits that do not fit (fewer
\* than 24 in this range, so they all lie in lo).
RoundToDouble(x) ==
  LET digits == IF x.hi > 0 THEN 48 + BitLength(x.hi)
                ELSE IF x.mid > 0 THEN 24 + BitLength(x.mid)
                ELSE BitLength(x.lo)
      drop == digits - 53
  IN IF drop <= 0 THEN x
     ELSE LET unit == 2^drop
              rest == x.lo % unit
              odd == (x.lo \div unit) % 2 = 1
              up == rest * 2 > unit \/ (rest * 2 = unit /\ odd)
          IN Carry(x.hi, x.mid, x.lo - rest + (IF up THEN unit ELSE 0))

\* a + b on doubles: the exact sum, rounded (totalCarbs += nutrient.carbs).
DblAdd(a, b) ==
  RoundToDouble(Carry(a.hi + b.hi, a.mid + b.mid, a.lo + b.lo))

\* --------------------------------------------- nutrition (lines 485-514)

Fact(c, p, f) == [carbs |-> c, protein |-> p, fat |-> f]

\* NUTRIENT_DATA (lines 485-493): each literal as the double it denotes. The
\* seven Japanese keys carry the same facts as the English ones and are
\* left unchanged by toLowerCase; recipes here are written with Latin names.
NUTRIENT_DATA ==
  [k \in { <<"e","g","g">>, <<"m","i","l","k">>, <<"s","u","g","a","r">>,
           <<"p","o","t","a","t","o">>, <<"o","n","i","o","n">>,
           <<"p","o","r","k">>, <<"c","a","r","r","o","t">> } |->
     CASE k = <<"e","g","g">> ->                \* 0.6, 12.6, 10.6
            Fact(Dbl(153, 10066329, 10066328), Dbl(3225, 10066329, 10066304),
                 Dbl(2713, 10066329, 10066304))
       [] k = <<"m","i","l","k">> ->            \* 4.8, 3.3, 3.8
            Fact(Dbl(1228, 13421772, 13421760), Dbl(844, 13421772, 13421760),
                 Dbl(972, 13421772, 13421760))
       [] k = <<"s","u","g","a","r">> ->        \* 100, 0, 0
            Fact(Dbl(25600, 0, 0), DblZero, DblZero)
       [] k = <<"p","o","t","a","t","o">> ->    \* 17.5, 2.0, 0.1
            Fact(Dbl(4480, 0, 0), Dbl(512, 0, 0), Dbl(25, 10066329, 10066330))
       [] k = <<"o","n","i","o","n">> ->        \* 7.6, 1.1, 0.1
            Fact(Dbl(1945, 10066329, 10066304), Dbl(281, 10066329, 10066336),
                 Dbl(25, 10066329, 10066330))
       [] k = <<"p","o","r","k">> ->            \* 0, 22.0, 15.0
            Fact(DblZero, Dbl(5632, 0, 0), Dbl(3840, 0, 0))
       [] k = <<"c","a","r","r","o","t">> ->    \* 8.2, 0.9, 0.2
            Fact(Dbl(2099, 3355443, 3355392), Dbl(230, 6710886, 6710888),
                 Dbl(51, 3355443, 3355444)) ]

\* The running sums totalCarbs, totalProtein, totalFat at 0 (line 503).
ZeroTotals == Fact(DblZero, DblZero, DblZero)

\* A mutant of the summing step: the table is read under the name as
\* spelled.
AddIngredient_exactName(totals, ingredient) ==
  IF ingredient \in DOMAIN NUTRIENT_DATA
    THEN Fact(DblAdd(totals.carbs, NUTRIENT_DATA[ingredient].carbs),
              DblAdd(totals.protein, NUTRIENT_DATA[ingredient].protein),
              DblAdd(totals.fat, NUTRIENT_DATA[ingredient].fat))
    ELSE totals

\* The body of the inner forEach (lines 507-512): one occurrence of one
\* ingredient; a name with no entry in the table adds nothing.
AddIngredient(totals, ingredient) ==
  LET key == toLowerCase(ingredient)
  IN IF key \in DOMAIN NUTRIENT_DATA
       THEN Fact(DblAdd(totals.carbs, NUTRIENT_DATA[key].carbs),
                 DblAdd(totals.protein, NUTRIENT_DATA[key].protein),
                 DblAdd(totals.fat, NUTRIENT_DATA[key].fat))
       ELSE totals

\* (recipe.ingredients || []).forEach(...) (lines 506-513) from position
\* `from` on.
RECURSIVE AddIngredients(_, _, _)
AddIngredients(totals, ingredients, from) ==
  IF from > Len(ingredients) THEN totals
  ELSE AddIngredients(AddIngredient(totals, ingredients[from]), ingredients, from + 1)

\* recipe.ingredients || [] (line 506).
IngredientsOrEmpty(recipe) ==
  IF "ingredients" \in DOMAIN recipe THEN recipe.ingredients ELSE <<>>

\* A mutant of the outer loop: the sums start again with every recipe.
RECURSIVE AddRecipes_sumsPerRecipe(_, _, _)
AddRecipes_sumsPerRecipe(totals, recipes, from) ==
  IF from > Len(recipes) THEN totals
  ELSE AddRecipes_sumsPerRecipe(
         AddIngredients(ZeroTotals, IngredientsOrEmpty(recipes[from]), 1),
         recipes, from + 1)

\* recipes.forEach(...) (lines 505-514) from recipe `from` on, the running
\* sums being `totals` before it.
RECURSIVE AddRecipes(_, _, _)
AddRecipes(totals, recipes, from) ==
  IF from > Len(recipes) THEN totals
  ELSE AddRecipes(AddIngredients(totals, IngredientsOrEmpty(recipes[from]), 1),
                  recipes, from + 1)

\* Lines 503-514 of updateNutritionGraph: the three totals of a snapshot.
NutritionTotals(recipes) == AddRecipes(ZeroTotals, recipes, 1)

\* totalNutrients (line 517).
TotalNutrients(totals) == DblAdd(DblAdd(totals.carbs, totals.protein), totals.fat)

\* Lines 521-560, on the reference held (`chart`: <<>> or <<instance>>), the
\* Chart instances constructed so far (`all`) and the totals. With a total of
\* zero the instance held, if any, is destroyed and the reference cleared,
\* and the empty-state message is drawn; otherwise the instance held is given
\* the new data, or, when none is held, a new Chart is constructed.
\* A mutant of the rendering: with a nonzero total a new Chart is constructed
\* whether or not one is held.
RenderChart_alwaysConstructs(chart, all, data) ==
  IF TotalNutrients(data) = DblZero
    THEN [ nutritionChart |-> <<>>,
           charts |-> IF chart # <<>>
                        THEN [all EXCEPT ![chart[1].id] = "destroyed"]
                        ELSE all,
           canvas |-> "emptyMessage" ]
  ELSE [ nutritionChart |-> << [id |-> Len(all) + 1, data |-> data] >>,
         charts |-> Append(all, "live"),
         canvas |-> "chart" ]

\* A mutant of the rendering: with a total of zero the message is drawn over
\* the chart, which is left as it is.
RenderChart_keepsChart(chart, all, data) ==
  IF TotalNutrients(data) = DblZero
    THEN [ nutritionChart |-> chart, charts |-> all, canvas |-> "emptyMessage" ]
  ELSE IF chart # <<>>
    THEN [ nutritionChart |-> << [chart[1] EXCEPT !.data = data] >>,
           charts |-> all,
           canvas |-> "chart" ]
  ELSE [ nutritionChart |-> << [id |-> Len(all) + 1, data |-> data] >>,
         charts |-> Append(all, "live"),
         canvas |-> "chart" ]

RenderChart(chart, all, data) ==
  IF TotalNutrients(data) = DblZero
    THEN [ nutritionChart |-> <<>>,
           charts |-> IF chart # <<>>
                        THEN [all EXCEPT ![chart[1].id] = "destroyed"]
                        ELSE all,
           canvas |-> "emptyMessage" ]
  ELSE IF chart # <<>>
    THEN [ nutritionChart |-> << [chart[1] EXCEPT !.data = data] >>,
           charts |-> all,
           canvas |-> "chart" ]
  ELSE [ nutritionChart |-> << [id |-> Len(all) + 1, data |-> data] >>,
         charts |-> Append(all, "live"),
         canvas |-> "chart" ]

\* ------------------------------------------------------------------- state

VARIABLES
  recipeStore,          \* the 'recipes' object store, in key order
  inventoryStore,       \* the 'inventory' object store: name -> quantity
  slPc,                 \* where displayShoppingList stands
  slReq,                \* the two getAll requests it is waiting on
  slRecipes,            \* its local `recipes`
  slInventory,          \* its local `inventory`
  neededItems,          \* its local `neededItems`
  slCaught,             \* the error its catch block received, if any
  shoppingListContent,  \* the children of the #shopping-list-content element
  slEarlier,            \* its earlier invocations that are still suspended
  ngPc,                 \* where updateNutritionGraph stands
  ngRecipes,            \* its local `recipes`
  ngTotals,             \* its totalCarbs, totalProtein, totalFat
  ngCaught,             \* the error its catch block received, if any
  ngOthers,             \* how many other invocations of it await their read
  nutritionChart,       \* the chart instance held: <<>> or <<chart>>
  charts,               \* every Chart constructed on the canvas: live or destroyed
  canvas,               \* what the #nutrition-chart canvas shows
  recipeList,           \* the children of the #recipe-list element
  rlPending,            \* how many displayRecipes requests are outstanding
  inventoryList,        \* the children of the #inventory-list element
  ilPending,            \* how many displayInventory requests are outstanding
  toastText,            \* the text of the #toast element
  toastShow             \* whether #toast has the class 'show'

storeVars == <<recipeStore, inventoryStore>>
slVars == <<slPc, slReq, slRecipes, slInventory, neededItems, slCaught,
            shoppingListContent, slEarlier>>
ngVars == <<ngPc, ngRecipes, ngTotals, ngCaught, ngOthers, nutritionChart,
            charts, canvas>>
listVars == <<recipeList, rlPending, inventoryList, ilPending>>
toastVars == <<toastText, toastShow>>
vars == <<storeVars, slVars, ngVars, listVars, toastVars>>

\* No request outstanding.
NoRequests == [resolver |-> "none", rejecter |-> "none"]
\* The two requests of one `await new Promise(...)` (lines 446-449 and
\* 450-453), just issued. The first carries the onsuccess handler that
\* resolves the promise, the second, a request of its own in a transaction
\* of its own, carries the onerror handler that rejects it.
TwoRequests == [resolver |-> "pending", rejecter |-> "pending"]

\* shoppingListContent.innerHTML = '' (line 444): no children.
BlankContent == <<>>

\* Lines 466-477. With no needs innerHTML is assigned the empty-state
\* paragraph, which replaces the children; otherwise a list with one entry
\* "<item> (x<count>)" per key of neededItems is appended to the children.
\* A mutant of the rendering: every entry of the list carries the count 1.
RenderShoppingList_countless(content, needed) ==
  IF DOMAIN needed = {}
    THEN << [kind |-> "emptyMessage", items |-> EmptyMap] >>
    ELSE Append(content, [kind |-> "list", items |-> [k \in DOMAIN needed |-> 1]])

RenderShoppingList(content, needed) ==
  IF DOMAIN needed = {}
    THEN << [kind |-> "emptyMessage", items |-> EmptyMap] >>
    ELSE Append(content, [kind |-> "list", items |-> needed])

\* The state the page is in once init() has opened the database: the two
\* stores hold what earlier sessions left in them, nothing is displayed yet.
NothingDisplayed ==
  /\ slPc = "idle"
  /\ slReq = NoRequests
  /\ slRecipes = <<>>
  /\ slInventory = <<>>
  /\ neededItems = EmptyMap
  /\ slCaught = "none"
  /\ shoppingListContent = BlankContent
  /\ slEarlier = <<>>
  /\ ngPc = "idle"
  /\ ngRecipes = <<>>
  /\ ngTotals = ZeroTotals
  /\ ngCaught = "none"
  /\ ngOthers = 0
  /\ nutritionChart = <<>>
  /\ charts = <<>>
  /\ canvas = "blank"
  /\ recipeList = <<>>
  /\ rlPending = 0
  /\ inventoryList = <<>>
  /\ ilPending = 0
  /\ toastText = ""
  /\ toastShow = FALSE

InitOver(names) ==
  /\ recipeStore \in RecipeStores(names, MaxRecipes, MaxIngredients)
  /\ inventoryStore \in InventoryStores
  /\ NothingDisplayed

\* The page on a database that onupgradeneeded (lines 162-167) has just
\* created: both stores are empty.
FreshInit ==
  /\ recipeStore = <<>>
  /\ inventoryStore = EmptyMap
  /\ NothingDisplayed

Init == InitOver(IngredientNames)

\* The same, with recipes written in the spellings that matter to the
\* shopping list: two spellings of one ingredient and a second ingredient.
ShoppingInit == InitOver({ <<"E","g","g">>, <<"e","g","g">>, <<"M","i","l","k">> })

\* The same, with recipes written in the spellings that matter to the
\* nutrition totals: two ingredients with a fact, spelled with a capital,
\* and one with none.
NutritionInit == InitOver({ <<"E","g","g">>, <<"M","i","l","k">>, <<"t","o","f","u">> })

\* ------------------------------------------------------- toast (lines 39-45)

\* showToast(message): the text is set and the toast shown.
ShowToast(message) ==
  /\ toastText' = message
  /\ toastShow' = TRUE

\* The timer of showToast fires after three seconds and hides the toast.
HideToast ==
  /\ toastShow
  /\ toastShow' = FALSE
  /\ UNCHANGED <<toastText, storeVars, slVars, ngVars, listVars>>

\* ---------------------------------------- displayRecipes (lines 279-305)

\* The entries request.onsuccess appends (lines 285-298): one per recipe
\* read, up to the first recipe without an ingredients field, on which
\* recipe.ingredients.join throws.
RECURSIVE RecipeEntries(_)
RecipeEntries(recipes) ==
  IF recipes = <<>> \/ "ingredients" \notin DOMAIN Head(recipes) THEN <<>>
  ELSE <<Head(recipes)>> \o RecipeEntries(Tail(recipes))

\* The call: the list is cleared and the getAll request issued (lines
\* 280-282).
CallDisplayRecipes ==
  /\ recipeList' = <<>>
  /\ rlPending' = rlPending + 1

\* displayRecipes called by showTab or setLanguage (lines 91, 200), at most
\* MaxOverlap times while a request of it is outstanding.
DisplayRecipes ==
  /\ rlPending <= MaxOverlap
  /\ CallDisplayRecipes
  /\ UNCHANGED <<inventoryList, ilPending, storeVars, slVars, ngVars, toastVars>>

\* request.onsuccess (lines 283-300).
DisplayRecipesSucceeds ==
  /\ rlPending > 0
  /\ recipeList' = recipeList \o RecipeEntries(GetAllRecipes(recipeStore))
  /\ rlPending' = rlPending - 1
  /\ UNCHANGED <<inventoryList, ilPending, storeVars, slVars, ngVars, toastVars>>

\* request.onerror (lines 301-304).
DisplayRecipesFails ==
  /\ rlPending > 0
  /\ rlPending' = rlPending - 1
  /\ ShowToast("DOMException")
  /\ UNCHANGED <<recipeList, inventoryList, ilPending, storeVars, slVars, ngVars>>

\* -------------------------------------- displayInventory (lines 365-389)

\* The call: the list is cleared and the getAll request issued (lines
\* 366-368).
CallDisplayInventory ==
  /\ inventoryList' = <<>>
  /\ ilPending' = ilPending + 1

\* displayInventory called by showTab or setLanguage (lines 92, 204), at
\* most MaxOverlap times while a request of it is outstanding.
DisplayInventory ==
  /\ ilPending <= MaxOverlap
  /\ CallDisplayInventory
  /\ UNCHANGED <<recipeList, rlPending, storeVars, slVars, ngVars, toastVars>>

\* request.onsuccess (lines 369-384): one entry per item read is appended to
\* the list.
DisplayInventorySucceeds ==
  /\ ilPending > 0
  /\ inventoryList' = inventoryList \o GetAllInventory(inventoryStore)
  /\ ilPending' = ilPending - 1
  /\ UNCHANGED <<recipeList, rlPending, storeVars, slVars, ngVars, toastVars>>

\* request.onerror (lines 385-388).
DisplayInventoryFails ==
  /\ ilPending > 0
  /\ ilPending' = ilPending - 1
  /\ ShowToast("DOMException")
  /\ UNCHANGED <<inventoryList, recipeList, rlPending, storeVars, slVars, ngVars>>

\* ------------------------- the inventory forms (lines 263-274 and 391-441)

\* IDBObjectStore.put on the inventory store (keyPath 'name', line 166): the
\* record stored under the item's name, as written, is added or replaced.
PutInventory(store, item) == MapSet(store, item.name, item.quantity)

\* IDBObjectStore.delete on the inventory store.
DeleteInventory(store, name) == [n \in DOMAIN store \ {name} |-> store[n]]

\* The add form is submitted and the put succeeds (lines 263-269).
AddInventorySucceeds ==
  /\ ilPending <= MaxOverlap
  /\ \E name \in InventoryNames, quantity \in 0..MaxQuantity :
       inventoryStore' =
         PutInventory(inventoryStore, [name |-> name, quantity |-> quantity])
  /\ ShowToast("inventoryAdded")
  /\ CallDisplayInventory
  /\ UNCHANGED <<recipeStore, recipeList, rlPending, slVars, ngVars>>

\* The add form is submitted and the transaction fails (lines 270-273).
AddInventoryFails ==
  /\ ShowToast("DOMException")
  /\ UNCHANGED <<storeVars, slVars, ngVars, listVars>>

\* The edit button of a listed item that is still stored is clicked, the
\* form, whose name field is read-only, is submitted and the put succeeds
\* (lines 393-415).
EditInventorySucceeds ==
  /\ ilPending <= MaxOverlap
  /\ \E i \in DOMAIN inventoryList, quantity \in 0..MaxQuantity :
       /\ inventoryList[i].name \in DOMAIN inventoryStore
       /\ inventoryStore' =
            PutInventory(inventoryStore,
                         [name |-> inventoryList[i].name, quantity |-> quantity])
  /\ ShowToast("inventoryUpdated")
  /\ CallDisplayInventory
  /\ UNCHANGED <<recipeStore, recipeList, rlPending, slVars, ngVars>>

\* The delete button of a listed item is clicked and confirmed, and the
\* delete succeeds (lines 426-433).
DeleteInventorySucceeds ==
  /\ ilPending <= MaxOverlap
  /\ \E i \in DOMAIN inventoryList :
       inventoryStore' = DeleteInventory(inventoryStore, inventoryList[i].name)
  /\ ShowToast("inventoryItemDeleted")
  /\ CallDisplayInventory
  /\ UNCHANGED <<recipeStore, recipeList, rlPending, slVars, ngVars>>

\* ------------------------------------ displayShoppingList (lines 443-482)

\* The call: the content is cleared and the two recipe requests are issued.
\* One invocation is followed at a time.
DisplayShoppingList ==
  /\ slPc \in {"idle", "done"}
  /\ shoppingListContent' = BlankContent
  /\ slPc' = "awaitRecipes"
  /\ slReq' = TwoRequests
  /\ slRecipes' = <<>>
  /\ slInventory' = <<>>
  /\ neededItems' = EmptyMap
  /\ slCaught' = "none"
  /\ UNCHANGED <<storeVars, ngVars, listVars, slEarlier,
                 toastVars>>

\* catch (error) { showToast(...) } (lines 478-481).
CatchShoppingError(error) ==
  /\ slCaught' = error
  /\ slPc' = "done"
  /\ slReq' = NoRequests
  /\ ShowToast(error)

\* The request of line 447 succeeds: the promise resolves with the recipes
\* and the handler goes on to issue the two inventory requests.
RecipesRequestSucceeds ==
  /\ slPc = "awaitRecipes"
  /\ slReq.resolver = "pending"
  /\ slRecipes' = GetAllRecipes(recipeStore)
  /\ slPc' = "awaitInventory"
  /\ slReq' = TwoRequests
  /\ UNCHANGED <<slInventory, neededItems, slCaught, shoppingListContent,
                 storeVars, ngVars, listVars, slEarlier,
                 toastVars>>

\* The request of line 447 fails: it has no onerror handler.
RecipesRequestFails ==
  /\ slPc = "awaitRecipes"
  /\ slReq.resolver = "pending"
  /\ slReq' = [slReq EXCEPT !.resolver = "failed"]
  /\ UNCHANGED <<slPc, slRecipes, slInventory, neededItems, slCaught,
                 shoppingListContent, storeVars, ngVars, listVars, slEarlier,
                 toastVars>>

\* The request of line 448 succeeds: it has no onsuccess handler.
RecipesSecondRequestSucceeds ==
  /\ slPc = "awaitRecipes"
  /\ slReq.rejecter = "pending"
  /\ slReq' = [slReq EXCEPT !.rejecter = "succeeded"]
  /\ UNCHANGED <<slPc, slRecipes, slInventory, neededItems, slCaught,
                 shoppingListContent, storeVars, ngVars, listVars, slEarlier,
                 toastVars>>

\* The request of line 448 fails: the promise is rejected and the catch
\* block runs.
RecipesSecondRequestFails ==
  /\ slPc = "awaitRecipes"
  /\ slReq.rejecter = "pending"
  /\ CatchShoppingError("DOMException")
  /\ UNCHANGED <<slRecipes, slInventory, neededItems, shoppingListContent,
                 storeVars, ngVars, listVars, slEarlier>>

\* The request of line 451 succeeds: the promise resolves with the
\* inventory, and lines 454-477 run to the end, or to the TypeError of a
\* recipe without ingredients.
InventoryRequestSucceeds ==
  /\ slPc = "awaitInventory"
  /\ slReq.resolver = "pending"
  /\ slInventory' = GetAllInventory(inventoryStore)
  /\ LET r == ShoppingNeeds(slRecipes, GetAllInventory(inventoryStore))
     IN IF r.threw
          THEN /\ CatchShoppingError("TypeError")
               /\ UNCHANGED <<neededItems, shoppingListContent>>
          ELSE /\ neededItems' = r.neededItems
               /\ shoppingListContent' =
                    RenderShoppingList(shoppingListContent, r.neededItems)
               /\ slPc' = "done"
               /\ slReq' = NoRequests
               /\ UNCHANGED <<slCaught, toastVars>>
  /\ UNCHANGED <<slRecipes, storeVars, ngVars, listVars, slEarlier>>

\* The request of line 451 fails: it has no onerror handler.
InventoryRequestFails ==
  /\ slPc = "awaitInventory"
  /\ slReq.resolver = "pending"
  /\ slReq' = [slReq EXCEPT !.resolver = "failed"]
  /\ UNCHANGED <<slPc, slRecipes, slInventory, neededItems, slCaught,
                 shoppingListContent, storeVars, ngVars, listVars, slEarlier,
                 toastVars>>

\* The request of line 452 succeeds: it has no onsuccess handler.
InventorySecondRequestSucceeds ==
  /\ slPc = "awaitInventory"
  /\ slReq.rejecter = "pending"
  /\ slReq' = [slReq EXCEPT !.rejecter = "succeeded"]
  /\ UNCHANGED <<slPc, slRecipes, slInventory, neededItems, slCaught,
                 shoppingListContent, storeVars, ngVars, listVars, slEarlier,
                 toastVars>>

\* The request of line 452 fails: the promise is rejected and the catch
\* block runs.
InventorySecondRequestFails ==
  /\ slPc = "awaitInventory"
  /\ slReq.rejecter = "pending"
  /\ CatchShoppingError("DOMException")
  /\ UNCHANGED <<slRecipes, slInventory, neededItems, shoppingListContent,
                 storeVars, ngVars, listVars, slEarlier>>

\* displayShoppingList called while an invocation of it is suspended at an
\* await: the content is cleared again and the new invocation is the one
\* followed; the suspended one, with its requests and the recipes it may
\* have read, joins the earlier invocations.
DisplayShoppingListOverlapping ==
  /\ slPc \in {"awaitRecipes", "awaitInventory"}
  /\ Len(slEarlier) < MaxOverlap
  /\ slEarlier' = Append(slEarlier,
                         [pc |-> slPc, req |-> slReq, recipes |-> slRecipes])
  /\ shoppingListContent' = BlankContent
  /\ slPc' = "awaitRecipes"
  /\ slReq' = TwoRequests
  /\ slRecipes' = <<>>
  /\ slInventory' = <<>>
  /\ neededItems' = EmptyMap
  /\ slCaught' = "none"
  /\ UNCHANGED <<storeVars, ngVars, listVars, toastVars>>

\* The earlier invocations without the i-th.
WithoutEarlier(i) ==
  SubSeq(slEarlier, 1, i - 1) \o SubSeq(slEarlier, i + 1, Len(slEarlier))

\* The request of line 447 or 451 of an earlier invocation succeeds: it
\* goes on to its inventory requests or, having both snapshots, through
\* lines 454-477, rendering into the content as it is now.
EarlierRequestSucceeds ==
  \E i \in DOMAIN slEarlier :
    /\ slEarlier[i].req.resolver = "pending"
    /\ IF slEarlier[i].pc = "awaitRecipes"
         THEN /\ slEarlier' = [slEarlier EXCEPT ![i] =
                   [pc |-> "awaitInventory", req |-> TwoRequests,
                    recipes |-> GetAllRecipes(recipeStore)]]
              /\ UNCHANGED <<shoppingListContent, toastVars>>
         ELSE LET r == ShoppingNeeds(slEarlier[i].recipes,
                                     GetAllInventory(inventoryStore))
              IN /\ slEarlier' = WithoutEarlier(i)
                 /\ IF r.threw
                      THEN /\ ShowToast("TypeError")
                           /\ UNCHANGED shoppingListContent
                      ELSE /\ shoppingListContent' =
                                RenderShoppingList(shoppingListContent, r.neededItems)
                           /\ UNCHANGED toastVars
    /\ UNCHANGED <<slPc, slReq, slRecipes, slInventory, neededItems, slCaught,
                   storeVars, ngVars, listVars>>

\* The request of line 447 or 451 of an earlier invocation fails: it has no
\* onerror handler.
EarlierRequestFails ==
  \E i \in DOMAIN slEarlier :
    /\ slEarlier[i].req.resolver = "pending"
    /\ slEarlier' = [slEarlier EXCEPT ![i].req.resolver = "failed"]
    /\ UNCHANGED <<slPc, slReq, slRecipes, slInventory, neededItems, slCaught,
                   shoppingListContent, storeVars, ngVars, listVars, toastVars>>

\* The request of line 448 or 452 of an earlier invocation succeeds: it has
\* no onsuccess handler.
EarlierSecondRequestSucceeds ==
  \E i \in DOMAIN slEarlier :
    /\ slEarlier[i].req.rejecter = "pending"
    /\ slEarlier' = [slEarlier EXCEPT ![i].req.rejecter = "succeeded"]
    /\ UNCHANGED <<slPc, slReq, slRecipes, slInventory, neededItems, slCaught,
                   shoppingListContent, storeVars, ngVars, listVars, toastVars>>

\* The request of line 448 or 452 of an earlier invocation fails: its
\* promise is rejected and its catch block shows the toast.
EarlierSecondRequestFails ==
  \E i \in DOMAIN slEarlier :
    /\ slEarlier[i].req.rejecter = "pending"
    /\ slEarlier' = WithoutEarlier(i)
    /\ ShowToast("DOMException")
    /\ UNCHANGED <<slPc, slReq, slRecipes, slInventory, neededItems, slCaught,
                   shoppingListContent, storeVars, ngVars, listVars>>

\* ------------------------------------ updateNutritionGraph (lines 495-565)

\* The call: the recipes request is issued. One invocation is followed at a
\* time.
UpdateNutritionGraph ==
  /\ ngPc \in {"idle", "done"}
  /\ ngPc' = "awaitRecipes"
  /\ ngRecipes' = <<>>
  /\ ngTotals' = ZeroTotals
  /\ ngCaught' = "none"
  /\ UNCHANGED <<ngOthers, nutritionChart, charts, canvas, storeVars, slVars,
                 listVars, toastVars>>

\* Lines 503-560, run by the invocation whose read has just succeeded: the
\* totals are computed over the recipes read and the chart rendered. The
\* number of Chart instances ever constructed is capped at MaxCharts.
RunNutritionGraph ==
  LET data == NutritionTotals(GetAllRecipes(recipeStore))
      r == RenderChart(nutritionChart, charts, data)
  IN /\ Len(r.charts) <= MaxCharts
     /\ ngRecipes' = GetAllRecipes(recipeStore)
     /\ ngTotals' = data
     /\ nutritionChart' = r.nutritionChart
     /\ charts' = r.charts
     /\ canvas' = r.canvas

\* The request of line 498 succeeds: lines 503-560. With all totals zero
\* the chart, if any, is destroyed and the empty-state message drawn;
\* otherwise the chart is updated, or created when there is none.
NutritionRequestSucceeds ==
  /\ ngPc = "awaitRecipes"
  /\ RunNutritionGraph
  /\ ngPc' = "done"
  /\ UNCHANGED <<ngCaught, ngOthers, storeVars, slVars, listVars, toastVars>>

\* The request of line 498 fails: the promise is rejected and the catch
\* block (lines 561-564) shows the toast.
NutritionRequestFails ==
  /\ ngPc = "awaitRecipes"
  /\ ngCaught' = "DOMException"
  /\ ngPc' = "done"
  /\ ShowToast("DOMException")
  /\ UNCHANGED <<ngRecipes, ngTotals, ngOthers, nutritionChart, charts, canvas,
                 storeVars, slVars, listVars>>

\* updateNutritionGraph called while an invocation of it awaits its read:
\* one more invocation awaits its read. An invocation has no local state
\* before its read succeeds.
UpdateNutritionGraphOverlapping ==
  /\ ngPc = "awaitRecipes"
  /\ ngOthers < MaxOverlap
  /\ ngOthers' = ngOthers + 1
  /\ UNCHANGED <<ngPc, ngRecipes, ngTotals, ngCaught, nutritionChart, charts,
                 canvas, storeVars, slVars, listVars, toastVars>>

\* The read of one of the other invocations succeeds: lines 503-560.
OtherNutritionRequestSucceeds ==
  /\ ngOthers > 0
  /\ RunNutritionGraph
  /\ ngCaught' = "none"
  /\ ngOthers' = ngOthers - 1
  /\ UNCHANGED <<ngPc, storeVars, slVars, listVars, toastVars>>

\* The read of one of the other invocations fails: lines 561-564.
OtherNutritionRequestFails ==
  /\ ngOthers > 0
  /\ ngCaught' = "DOMException"
  /\ ngOthers' = ngOthers - 1
  /\ ShowToast("DOMException")
  /\ UNCHANGED <<ngPc, ngRecipes, ngTotals, nutritionChart, charts, canvas,
                 storeVars, slVars, listVars>>

\* updateNutritionGraph() as a statement of another handler: the invocation
\* is the one followed when none is in flight, and one of the others when
\* one is.
CallUpdateNutritionGraph ==
  IF ngPc = "awaitRecipes"
    THEN /\ ngOthers < MaxOverlap
         /\ ngOthers' = ngOthers + 1
         /\ UNCHANGED <<ngPc, ngRecipes, ngTotals, ngCaught>>
    ELSE /\ ngPc' = "awaitRecipes"
         /\ ngRecipes' = <<>>
         /\ ngTotals' = ZeroTotals
         /\ ngCaught' = "none"
         /\ UNCHANGED ngOthers

\* ---------------------------- the recipe forms (lines 236-249 and 307-363)

\* The ingredient lists typed into the recipe form, after the split, trim
\* and filter of line 237: one ingredient with a nutrient fact, or one with
\* none.
RecipeFormLists == { << <<"E","g","g">> >>, << <<"t","o","f","u">> >> }

\* The statements every successful recipe write ends with (lines 241-243,
\* 333-335, 352-354).
AfterRecipeWrite(message) ==
  /\ rlPending <= MaxOverlap
  /\ ShowToast(message)
  /\ CallDisplayRecipes
  /\ CallUpdateNutritionGraph
  /\ UNCHANGED <<inventoryStore, inventoryList, ilPending, slVars,
                 nutritionChart, charts, canvas>>

\* The add form is submitted and the add succeeds (lines 236-244).
AddRecipeSucceeds ==
  /\ Len(recipeStore) < MaxRecipes
  /\ \E ingredients \in RecipeFormLists :
       recipeStore' = Append(recipeStore, [ingredients |-> ingredients])
  /\ AfterRecipeWrite("recipeAdded")

\* A recipe write fails (lines 245-248, 337-340, 356-359).
RecipeWriteFails ==
  /\ ShowToast("DOMException")
  /\ UNCHANGED <<storeVars, slVars, ngVars, listVars>>

\* The edit button of a listed recipe is clicked, the form is submitted and
\* the put succeeds (lines 309-336).
EditRecipeSucceeds ==
  /\ \E i \in DOMAIN recipeStore, ingredients \in RecipeFormLists :
       /\ \E j \in DOMAIN recipeList : recipeList[j] = recipeStore[i]
       /\ recipeStore' = [recipeStore EXCEPT ![i] = [ingredients |-> ingredients]]
  /\ AfterRecipeWrite("recipeUpdated")

\* The delete button of a listed recipe is clicked and confirmed, and the
\* delete succeeds (lines 347-355).
DeleteRecipeSucceeds ==
  /\ \E i \in DOMAIN recipeStore :
       /\ \E j \in DOMAIN recipeList : recipeList[j] = recipeStore[i]
       /\ recipeStore' = SubSeq(recipeStore, 1, i - 1)
                           \o SubSeq(recipeStore, i + 1, Len(recipeStore))
  /\ AfterRecipeWrite("recipeDeleted")

\* ---------------------------------------------------------- specifications

ShoppingNext ==
  \/ DisplayShoppingList
  \/ RecipesRequestSucceeds
  \/ RecipesRequestFails
  \/ RecipesSecondRequestSucceeds
  \/ RecipesSecondRequestFails
  \/ InventoryRequestSucceeds
  \/ InventoryRequestFails
  \/ InventorySecondRequestSucceeds
  \/ InventorySecondRequestFails
  \/ DisplayShoppingListOverlapping
  \/ EarlierRequestSucceeds
  \/ EarlierRequestFails
  \/ EarlierSecondRequestSucceeds
  \/ EarlierSecondRequestFails

NutritionNext ==
  \/ UpdateNutritionGraph
  \/ NutritionRequestSucceeds
  \/ NutritionRequestFails
  \/ UpdateNutritionGraphOverlapping
  \/ OtherNutritionRequestSucceeds
  \/ OtherNutritionRequestFails

ListsNext ==
  \/ DisplayRecipes
  \/ DisplayRecipesSucceeds
  \/ DisplayRecipesFails
  \/ DisplayInventory
  \/ DisplayInventorySucceeds
  \/ DisplayInventoryFails

FormsNext ==
  \/ AddRecipeSucceeds
  \/ EditRecipeSucceeds
  \/ DeleteRecipeSucceeds
  \/ RecipeWriteFails
  \/ AddInventorySucceeds
  \/ EditInventorySucceeds
  \/ DeleteInventorySucceeds
  \/ AddInventoryFails

Next == ShoppingNext \/ NutritionNext \/ ListsNext \/ FormsNext \/ HideToast

\* The whole page: the handlers interleaved, with every outcome of every
\* request.
Spec == Init /\ [][Next]_vars

\* displayShoppingList alone, with invocations that overlap and every
\* outcome of the four requests of each.
ShoppingSpec == ShoppingInit /\ [][ShoppingNext \/ HideToast]_vars

\* displayShoppingList alone, in the runs in which its reads succeed.
ShoppingReadsNext ==
  \/ DisplayShoppingList
  \/ RecipesRequestSucceeds
  \/ InventoryRequestSucceeds
  \/ HideToast

ShoppingReadsSpec == ShoppingInit /\ [][ShoppingReadsNext]_vars

\* updateNutritionGraph alone, with invocations that overlap and both
\* outcomes of the request of each.
NutritionSpec == NutritionInit /\ [][NutritionNext \/ HideToast]_vars

\* updateNutritionGraph alone, in the runs in which its read succeeds.
NutritionReadsNext ==
  \/ UpdateNutritionGraph
  \/ NutritionRequestSucceeds

NutritionReadsSpec == NutritionInit /\ [][NutritionReadsNext]_vars

\* Both handlers, interleaved, in the runs in which their reads succeed, on
\* recipes written in two spellings of one ingredient.
ReadsSucceedNext ==
  \/ DisplayShoppingList
  \/ RecipesRequestSucceeds
  \/ InventoryRequestSucceeds
  \/ UpdateNutritionGraph
  \/ NutritionRequestSucceeds
  \/ HideToast

ReadsSucceedSpec ==
  InitOver({ <<"E","g","g">>, <<"e","g","g">> }) /\ [][ReadsSucceedNext]_vars

\* The recipes and nutrition tabs on a fresh database: the recipe forms,
\* displayRecipes, and updateNutritionGraph with invocations that overlap.
ChartNext ==
  \/ AddRecipeSucceeds
  \/ EditRecipeSucceeds
  \/ DeleteRecipeSucceeds
  \/ RecipeWriteFails
  \/ DisplayRecipesSucceeds
  \/ DisplayRecipesFails
  \/ UpdateNutritionGraph
  \/ UpdateNutritionGraphOverlapping
  \/ NutritionRequestSucceeds
  \/ NutritionRequestFails
  \/ OtherNutritionRequestSucceeds
  \/ OtherNutritionRequestFails
  \/ HideToast

ChartSpec == FreshInit /\ [][ChartNext]_vars

\* The three display operations with invocations that overlap, on recipes
\* written in one spelling, in the runs in which their reads succeed.
DisplaysNext ==
  \/ DisplayShoppingList
  \/ DisplayShoppingListOverlapping
  \/ RecipesRequestSucceeds
  \/ InventoryRequestSucceeds
  \/ EarlierRequestSucceeds
  \/ DisplayRecipes
  \/ DisplayRecipesSucceeds
  \/ DisplayInventory
  \/ DisplayInventorySucceeds
  \/ HideToast

DisplaysSpec == InitOver({ <<"E","g","g">> }) /\ [][DisplaysNext]_vars

\* The inventory tab on a fresh database: the inventory forms and
\* displayInventory.
InventoryNext ==
  \/ DisplayInventory
  \/ DisplayInventorySucceeds
  \/ DisplayInventoryFails
  \/ AddInventorySucceeds
  \/ AddInventoryFails
  \/ EditInventorySucceeds
  \/ DeleteInventorySucceeds
  \/ HideToast

InventorySpec == FreshInit /\ [][InventoryNext]_vars

\* ------------------------------------------------- vocabulary of the claims

Egg == <<"E","g","g">>
egg == <<"e","g","g">>
EGG == <<"E","G","G">>
Milk == <<"M","i","l","k">>

\* displayShoppingList ran to its end and rendered neededItems.
ShoppingListRendered == slPc = "done" /\ slCaught = "none"

\* updateNutritionGraph ran to its end and rendered ngTotals.
NutritionRendered == ngPc = "done" /\ ngCaught = "none"

\* The places (recipe, position) at which a snapshot lists an ingredient.
Places(recipes) ==
  UNION { { <<i, j>> : j \in DOMAIN recipes[i].ingredients }
          : i \in { i \in DOMAIN recipes : "ingredients" \in DOMAIN recipes[i] } }

NameAt(recipes, p) == recipes[p[1]].ingredients[p[2]]

\* The ingredient spellings of a snapshot.
Spellings(recipes) == { NameAt(recipes, p) : p \in Places(recipes) }

\* How many times a spelling occurs in a snapshot, repeats included.
Occurrences(recipes, name) ==
  Cardinality({ p \in Places(recipes) : NameAt(recipes, p) = name })

\* How many recipes of a snapshot list a spelling at least once.
RecipesListing(recipes, name) ==
  Cardinality({ p[1] : p \in { q \in Places(recipes) : NameAt(recipes, q) = name } })

\* The inventory items, by position, whose name case-folds like `name`.
ItemsFor(inventory, name) ==
  { i \in DOMAIN inventory : toLowerCase(inventory[i].name) = toLowerCase(name) }

Last(S) == CHOOSE i \in S : \A j \in S : j <= i

\* The stock of a name: the quantity of the last inventory item of the
\* snapshot that case-folds like it, 0 when there is none.
Stock(inventory, name) ==
  IF ItemsFor(inventory, name) = {} THEN 0
  ELSE inventory[Last(ItemsFor(inventory, name))].quantity

\* The sum of the counts of a needs mapping.
RECURSIVE SumOfCounts(_)
SumOfCounts(needed) ==
  IF DOMAIN needed = {} THEN 0
  ELSE LET k == CHOOSE x \in DOMAIN needed : TRUE
       IN needed[k] + SumOfCounts([x \in DOMAIN needed \ {k} |-> needed[x]])

\* ----------------------------------------------------------------- claims

\* C1 (as stated): every count of the shopping needs equals the number of
\* recipes that list that exact spelling, a recipe that lists it several
\* times counting once, and the stock of a counted spelling is zero.
C1_CountIsRecipesListing ==
  ShoppingListRendered =>
    \A k \in DOMAIN neededItems :
      /\ neededItems[k] = RecipesListing(slRecipes, k)
      /\ Stock(slInventory, k) = 0

\* C1 (amended): every count of the shopping needs equals the number of
\* occurrences of that exact spelling over all ingredient lists, a recipe
\* that lists it twice counting twice, and the stock of a counted spelling
\* is zero.
C1_CountIsOccurrences ==
  ShoppingListRendered =>
    \A k \in DOMAIN neededItems :
      /\ neededItems[k] = Occurrences(slRecipes, k)
      /\ Stock(slInventory, k) = 0

\* A rendered list in which one recipe lists a needed spelling twice.
C1_Witness ==
  /\ ShoppingListRendered
  /\ \E k \in DOMAIN neededItems :
       neededItems[k] = 2 /\ RecipesListing(slRecipes, k) = 1

\* C2: an ingredient whose stock is at least 1 is no key of the shopping
\* needs and adds to no count, however many recipes list it: the counts add
\* up to the occurrences of the spellings with zero stock.
C2_StockedNotNeeded ==
  ShoppingListRendered =>
    /\ \A name \in Spellings(slRecipes) :
         Stock(slInventory, name) >= 1 => name \notin DOMAIN neededItems
    /\ SumOfCounts(neededItems) =
         Cardinality({ p \in Places(slRecipes) :
                         Stock(slInventory, NameAt(slRecipes, p)) = 0 })

\* A rendered list where two recipes list a spelling stocked under a name
\* of different case, next to a needed one.
C2_Witness ==
  /\ ShoppingListRendered
  /\ \E name \in Spellings(slRecipes) :
       /\ Stock(slInventory, name) >= 1
       /\ RecipesListing(slRecipes, name) = 2
       /\ \A i \in ItemsFor(slInventory, name) : slInventory[i].name # name
  /\ DOMAIN neededItems # {}

\* C3: the keys of the shopping needs are exactly the spellings listed by
\* some recipe whose case-folded name has no inventory entry or one with
\* quantity 0; recipes ["Egg","Milk"] with inventory egg=0 give
\* {"Egg":1,"Milk":1}.
C3_KeysAreUnstockedSpellings ==
  ShoppingListRendered =>
    /\ DOMAIN neededItems =
         { name \in Spellings(slRecipes) :
             \/ ItemsFor(slInventory, name) = {}
             \/ Stock(slInventory, name) = 0 }
    /\ ( /\ slRecipes = <<[ingredients |-> <<Egg, Milk>>]>>
         /\ slInventory = <<[name |-> egg, quantity |-> 0]>> )
       => neededItems = [k \in {Egg, Milk} |-> 1]

\* The scenario of C3, rendered: one key for the ingredient stocked at 0,
\* one for the ingredient missing from the inventory.
C3_Witness ==
  /\ ShoppingListRendered
  /\ slRecipes = <<[ingredients |-> <<Egg, Milk>>]>>
  /\ slInventory = <<[name |-> egg, quantity |-> 0]>>
  /\ DOMAIN neededItems = {Egg, Milk}

\* C4: two spellings that differ only in case are two entries of the
\* shopping needs when their stock is zero, each with its own count, and a
\* single inventory item whose name differs only in case, with a positive
\* quantity, suppresses both.
C4_SpellingKeptLookupFolded ==
  ShoppingListRendered =>
    \A a, b \in Spellings(slRecipes) :
      (a # b /\ toLowerCase(a) = toLowerCase(b)) =>
        /\ Stock(slInventory, a) = 0 =>
             /\ {a, b} \subseteq DOMAIN neededItems
             /\ neededItems[a] = Occurrences(slRecipes, a)
             /\ neededItems[b] = Occurrences(slRecipes, b)
        /\ ( \E i \in DOMAIN slInventory :
               /\ ItemsFor(slInventory, a) = {i}
               /\ slInventory[i].name \notin {a, b}
               /\ slInventory[i].quantity >= 1 )
           => (a \notin DOMAIN neededItems /\ b \notin DOMAIN neededItems)

\* One recipe spells "Egg", another "egg", nothing is in stock: two entries.
C4_Witness ==
  /\ ShoppingListRendered
  /\ slRecipes = <<[ingredients |-> <<Egg>>], [ingredients |-> <<egg>>]>>
  /\ slInventory = <<>>
  /\ neededItems = [k \in {Egg, egg} |-> 1]

\* A snapshot with every missing ingredients field replaced by the empty
\* list.
WithEmptyLists(recipes) ==
  [i \in DOMAIN recipes |->
     IF "ingredients" \in DOMAIN recipes[i] THEN recipes[i]
     ELSE [ingredients |-> <<>>]]

\* C5: the derivation never fails on a recipe with no ingredients field: in
\* the runs in which both reads succeed the catch block is not entered, and
\* the needs are those of the snapshot with that recipe's list replaced by
\* the empty one.
C5_MalformedRecipeIsEmpty ==
  slPc = "done" =>
    /\ slCaught = "none"
    /\ neededItems = ShoppingNeeds(WithEmptyLists(slRecipes), slInventory).neededItems

\* Two triples of totals added component by component, as doubles.
PlusTotals(a, b) ==
  Fact(DblAdd(a.carbs, b.carbs), DblAdd(a.protein, b.protein), DblAdd(a.fat, b.fat))

\* The recipes 1..k of a snapshot, and the recipes after them.
Front(recipes, k) == SubSeq(recipes, 1, k)
Back(recipes, k) == SubSeq(recipes, k + 1, Len(recipes))

\* How many ingredient occurrences of a snapshot have a nutrient fact.
Matched(recipes) ==
  Cardinality({ p \in Places(recipes) :
                  toLowerCase(NameAt(recipes, p)) \in DOMAIN NUTRIENT_DATA })

\* C6 (as stated), in the runs in which the read succeeds: for every way of cutting the recipes into A followed by
\* B, the totals of the whole equal the totals of A plus the totals of B,
\* component by component.
C6_TotalsAdditive ==
  ngPc = "done" =>
    \A k \in 0..Len(ngRecipes) :
      ngTotals = PlusTotals(NutritionTotals(Front(ngRecipes, k)),
                            NutritionTotals(Back(ngRecipes, k)))

\* C6 (amended), in the runs in which the read succeeds: the totals are running sums of doubles. For every cut into
\* A followed by B the totals of the whole are the sums carried on from the
\* totals of A through the ingredients of B, and they equal the totals of A
\* plus the totals of B whenever A has no ingredient with a nutrient fact or
\* B has at most one.
C6_TotalsRunningSum ==
  ngPc = "done" =>
    \A k \in 0..Len(ngRecipes) :
      LET ofFront == NutritionTotals(Front(ngRecipes, k))
      IN /\ ngTotals = AddRecipes(ofFront, Back(ngRecipes, k), 1)
         /\ (Matched(Front(ngRecipes, k)) = 0 \/ Matched(Back(ngRecipes, k)) <= 1)
              => ngTotals = PlusTotals(ofFront, NutritionTotals(Back(ngRecipes, k)))

\* Totals rendered for two recipes that each have an ingredient with a
\* nutrient fact.
C6_Witness ==
  /\ NutritionRendered
  /\ Len(ngRecipes) = 2
  /\ Matched(Front(ngRecipes, 1)) >= 1
  /\ Matched(Back(ngRecipes, 1)) = 1
  /\ ngTotals # ZeroTotals

\* Every ingredient occurrence of a snapshot, in order; a recipe with no
\* ingredients field has none.
RECURSIVE AllOccurrences(_)
AllOccurrences(recipes) ==
  IF recipes = <<>> THEN <<>>
  ELSE (IF "ingredients" \in DOMAIN Head(recipes)
          THEN Head(recipes).ingredients ELSE <<>>)
         \o AllOccurrences(Tail(recipes))

\* The fact stored under the case-folded name, nothing when there is none.
FactOrNothing(name) ==
  IF toLowerCase(name) \in DOMAIN NUTRIENT_DATA
    THEN NUTRIENT_DATA[toLowerCase(name)]
    ELSE ZeroTotals

\* The facts of the first n names of a list, summed in order.
RECURSIVE SumOfFacts(_, _)
SumOfFacts(names, n) ==
  IF n = 0 THEN ZeroTotals
  ELSE PlusTotals(SumOfFacts(names, n - 1), FactOrNothing(names[n]))

\* C7: the totals are the sum, over every occurrence of every ingredient in
\* every recipe, of the fact stored under the case-folded name: n
\* occurrences add n times, a name with no fact adds nothing and raises no
\* error, and the inventory plays no part. (In the runs in which the read
\* succeeds.)
C7_TotalsSumOverOccurrences ==
  ngPc = "done" =>
    /\ ngCaught = "none"
    /\ ngTotals = SumOfFacts(AllOccurrences(ngRecipes),
                             Len(AllOccurrences(ngRecipes)))

\* Totals rendered for recipes in which an ingredient with a fact occurs
\* twice, spelled with a capital, beside one with no fact, with items in
\* the inventory.
C7_Witness ==
  /\ NutritionRendered
  /\ Occurrences(ngRecipes, Egg) = 2
  /\ \E name \in Spellings(ngRecipes) : toLowerCase(name) \notin DOMAIN NUTRIENT_DATA
  /\ DOMAIN inventoryStore # {}
  /\ ngTotals = PlusTotals(NUTRIENT_DATA[egg], NUTRIENT_DATA[egg])

\* C8: with no recipes the totals are (0,0,0) and the shopping needs are
\* empty whatever the inventory; the shopping needs are also empty
\* whenever every ingredient of every recipe has nonzero stock.
C8_EmptyResults ==
  /\ (NutritionRendered /\ ngRecipes = <<>>) => ngTotals = ZeroTotals
  /\ (ShoppingListRendered /\ slRecipes = <<>>) => DOMAIN neededItems = {}
  /\ ( /\ ShoppingListRendered
       /\ \A name \in Spellings(slRecipes) : Stock(slInventory, name) # 0 )
     => DOMAIN neededItems = {}

\* Both handlers done: recipes whose ingredients are all in stock, under
\* names of different case, and nothing to buy; the totals are not zero.
C8_Witness ==
  /\ NutritionRendered
  /\ ShoppingListRendered
  /\ Cardinality(Spellings(slRecipes)) = 2
  /\ \A name \in Spellings(slRecipes) : Stock(slInventory, name) # 0
  /\ DOMAIN neededItems = {}
  /\ ngTotals # ZeroTotals

\* C9: when several inventory items case-fold to the same key, the stock
\* used for the key is the quantity of the last of them in snapshot order,
\* and an ingredient with that key is needed exactly when that quantity
\* is 0.
C9_LastItemWins ==
  ShoppingListRendered =>
    \A i, j \in DOMAIN slInventory :
      (i < j /\ ItemsFor(slInventory, slInventory[i].name) = {i, j}) =>
        /\ InventoryMap(slInventory)[toLowerCase(slInventory[j].name)]
             = slInventory[j].quantity
        /\ \A name \in Spellings(slRecipes) :
             toLowerCase(name) = toLowerCase(slInventory[j].name) =>
               (name \in DOMAIN neededItems <=> slInventory[j].quantity = 0)

\* Two items fold to one key, the first in stock, the last at 0: the
\* ingredient is needed.
C9_Witness ==
  /\ ShoppingListRendered
  /\ slInventory = <<[name |-> EGG, quantity |-> 1], [name |-> egg, quantity |-> 0]>>
  /\ Egg \in DOMAIN neededItems

\* C10: once no request of the display is outstanding any more, the
\* display is not left pending, and if one of its reads failed a
\* notification has been shown.
C10_FailedReadNotifies ==
  (slReq.resolver # "pending" /\ slReq.rejecter # "pending") =>
    /\ slPc \in {"idle", "done"}
    /\ (slReq.resolver = "failed" \/ slCaught = "DOMException") => toastText # ""

\* C11: no two items of the inventory store have names that are equal after
\* case-folding: saving an item whose name case-folds to that of a stored
\* item replaces that item.
C11_NamesDifferAfterFolding ==
  \A a, b \in DOMAIN inventoryStore : toLowerCase(a) = toLowerCase(b) => a = b

\* The Chart instances constructed on the canvas and not destroyed.
LiveCharts == { i \in DOMAIN charts : charts[i] = "live" }

\* C12: whenever an update of the nutrition graph has completed with all
\* three totals zero, the canvas shows the empty-state message, no reference
\* to a chart is held and no chart instance is left alive; whenever it has
\* completed with a nonzero total, the canvas shows a chart, and the
\* reference held is to a live instance whose data are the totals computed.
C12_ChartShowsTotals ==
  NutritionRendered =>
    IF ngTotals = ZeroTotals
      THEN /\ canvas = "emptyMessage"
           /\ nutritionChart = <<>>
           /\ LiveCharts = {}
      ELSE /\ canvas = "chart"
           /\ nutritionChart # <<>>
           /\ nutritionChart[1].data = ngTotals
           /\ nutritionChart[1].id \in LiveCharts

\* An update that found nonzero totals built a chart, and a later update
\* that found all totals zero destroyed it.
C12_Witness ==
  /\ NutritionRendered
  /\ ngTotals = ZeroTotals
  /\ charts = << "destroyed" >>
  /\ canvas = "emptyMessage"

\* The children of the shopping-list area of one kind.
ChildrenOfKind(kind) ==
  { i \in DOMAIN shoppingListContent : shoppingListContent[i].kind = kind }

\* C13: whenever a display of the shopping list has completed without
\* error, the area shows the empty-state message and no list if and only if
\* the needs computed are empty; otherwise the list the display appended is
\* the last child of the area and has one entry per key of the needs, with
\* that key's count.
C13_RenderingFollowsNeeds ==
  ShoppingListRendered =>
    /\ (DOMAIN neededItems = {}) <=>
         (ChildrenOfKind("emptyMessage") # {} /\ ChildrenOfKind("list") = {})
    /\ DOMAIN neededItems # {} =>
         shoppingListContent[Len(shoppingListContent)] =
           [kind |-> "list", items |-> neededItems]

C13_Witness ==
  /\ ShoppingListRendered
  /\ \E a, b \in DOMAIN neededItems : neededItems[a] = 2 /\ neededItems[b] = 1
  /\ shoppingListContent = << [kind |-> "list", items |-> neededItems] >>

\* C14: once no invocation of a display operation is pending, its container
\* holds one rendering: the shopping-list area holds at most one list, the
\* recipe list holds nothing but one entry per stored recipe, and the
\* inventory list nothing but one entry per stored item.
C14_OneRendering ==
  /\ (slPc \in {"idle", "done"} /\ slEarlier = <<>>) =>
       Cardinality(ChildrenOfKind("list")) <= 1
  /\ rlPending = 0 =>
       recipeList \in { <<>>, RecipeEntries(GetAllRecipes(recipeStore)) }
  /\ ilPending = 0 =>
       inventoryList \in { <<>>, GetAllInventory(inventoryStore) }

\* C15: at most one Chart instance constructed on the canvas is alive at any
\* time, and it is the one the reference is held to: a Chart is constructed
\* only while no reference is held, and the reference is cleared only when
\* the instance it was held to has been destroyed.
C15_OneLiveChart ==
  LiveCharts = IF nutritionChart = <<>> THEN {} ELSE { nutritionChart[1].id }

\* A second chart is alive after the first was destroyed, while two
\* invocations of updateNutritionGraph await their reads.
C15_Witness ==
  /\ charts = << "destroyed", "live" >>
  /\ nutritionChart # <<>>
  /\ ngPc = "awaitRecipes"
  /\ ngOthers = 1

====
